---- MODULE Spec2Model ----
(***************************************************************************)
(* Tak rules engine (AlphaZero-tak/tak/TakGame.py, class TakGame).         *)
(*                                                                         *)
(* A board is the (n+4, n, n) array of the code: n game layers, modelled   *)
(* as grid[pos][h] (pos = row*n + col, h = height level, 0 = empty cell,   *)
(* 1/2 = white/black flat, 3/4 = standing, 5/6 = capstone), and the four   *)
(* broadcast count planes, modelled by the piece counts they encode.  The  *)
(* flat planes hold count/max_flats in float32; for max_flats = 10 (n = 3) *)
(* every step x -> ((x*10) - 1)/10 of the code is exact on the values      *)
(* k/10, so the plane is a function of the integer k that is kept here.    *)
(***************************************************************************)
EXTENDS Integers, Sequences, FiniteSets, TLC

\* ------------------------------------------------------------------------
\* Construction: TakGame(n)
\* ------------------------------------------------------------------------

\* self.n
N == 3

\* bound on the number of plies played from getInitBoard in Spec
MaxPly == 4

Squares == 0 .. (N * N - 1)
Levels == 0 .. (N - 1)
Players == {1, -1}

RowOf(pos) == pos \div N
ColOf(pos) == pos % N

\* _init_piece_counts: piece_data.get(n, default)
standard_pieces ==
  CASE N = 3 -> [flats |-> 10, capstones |-> 0]
    [] N = 4 -> [flats |-> 15, capstones |-> 0]
    [] N = 5 -> [flats |-> 21, capstones |-> 1]
    [] N = 6 -> [flats |-> 30, capstones |-> 1]
    [] N = 7 -> [flats |-> 40, capstones |-> 1]
    [] N = 8 -> [flats |-> 50, capstones |-> 1]
    [] OTHER -> [flats |-> N * N, capstones |-> IF N >= 5 THEN 1 ELSE 0]

\* inner generate(remaining, current_pattern, max_remaining_drops): the list
\* of patterns appended, in order, by this call
RECURSIVE generate(_, _, _)
RECURSIVE generateFrom(_, _, _, _)
generate(remaining, current_pattern, max_remaining_drops) ==
  IF remaining = 0 THEN << current_pattern >>
  ELSE IF max_remaining_drops = 0 THEN << >>
  ELSE generateFrom(1, remaining, current_pattern, max_remaining_drops)

\* the body of "for drop_amount in range(1, remaining + 1)" from drop_amount on
generateFrom(drop_amount, remaining, current_pattern, max_remaining_drops) ==
  IF drop_amount > remaining THEN << >>
  ELSE generate(remaining - drop_amount, Append(current_pattern, drop_amount),
                max_remaining_drops - 1)
       \o generateFrom(drop_amount + 1, remaining, current_pattern, max_remaining_drops)

\* _generate_drop_patterns(total, max_drops)
generate_drop_patterns(total, max_drops) ==
  IF total = 1 THEN << << 1 >> >> ELSE generate(total, << >>, max_drops)

\* movement_patterns: for pickup in 1..n, (pickup, pattern) for each pattern
RECURSIVE patternsFrom(_)
patternsFrom(pickup) ==
  IF pickup > N THEN << >>
  ELSE LET ps == generate_drop_patterns(pickup, pickup)
       IN [i \in 1 .. Len(ps) |-> [pickup |-> pickup, drops |-> ps[i]]]
          \o patternsFrom(pickup + 1)

movement_patterns == patternsFrom(1)

num_placement_actions == 3 * N * N
num_movement_actions == N * N * 4 * Len(movement_patterns)
action_size == num_placement_actions + num_movement_actions

PlacementActions == 0 .. (num_placement_actions - 1)
MovementActions == num_placement_actions .. (action_size - 1)
Actions == 0 .. (action_size - 1)

\* ------------------------------------------------------------------------
\* Helper methods
\* ------------------------------------------------------------------------

\* _piece_to_value with base 0 for either player
piece_to_value_white(piece_type, p) ==
  CASE piece_type = "flat" -> 1
    [] piece_type = "standing" -> 3
    [] piece_type = "capstone" -> 5
    [] OTHER -> 0

\* _piece_to_value(piece_type, player)
piece_to_value(piece_type, p) ==
  LET base == IF p = 1 THEN 0 ELSE 1
  IN CASE piece_type = "flat" -> 1 + base
       [] piece_type = "standing" -> 3 + base
       [] piece_type = "capstone" -> 5 + base
       [] OTHER -> 0

\* _value_to_piece(value): (player, piece_type); player 0 stands for None
value_to_piece(value) ==
  CASE value \in {1, 2} -> [player |-> IF value = 1 THEN 1 ELSE -1, type |-> "flat"]
    [] value \in {3, 4} -> [player |-> IF value = 3 THEN 1 ELSE -1, type |-> "standing"]
    [] value \in {5, 6} -> [player |-> IF value = 5 THEN 1 ELSE -1, type |-> "capstone"]
    [] OTHER -> [player |-> 0, type |-> "none"]

\* _get_stack_height(board, row, col): first empty level from the bottom
RECURSIVE heightFrom(_, _)
heightFrom(stack, h) ==
  IF h >= N THEN N
  ELSE IF stack[h] = 0 THEN h
  ELSE heightFrom(stack, h + 1)

get_stack_height(grid, pos) == heightFrom(grid[pos], 0)

\* TakLogic.get_stack_height: one above the highest occupied level
get_stack_height_logic(grid, pos) ==
  LET occupied == {h \in Levels : grid[pos][h] # 0}
  IN IF occupied = {} THEN 0
     ELSE (CHOOSE h \in occupied : \A k \in occupied : k <= h) + 1

EmptyStack == [h \in Levels |-> 0]

\* getInitBoard
getInitBoard ==
  [grid |-> [pos \in Squares |-> EmptyStack],
   flats1 |-> standard_pieces.flats,
   caps1 |-> standard_pieces.capstones,
   flats2 |-> standard_pieces.flats,
   caps2 |-> standard_pieces.capstones]

\* ------------------------------------------------------------------------
\* getNextState(board, player, action)
\* ------------------------------------------------------------------------

piece_types == << "flat", "standing", "capstone" >>

\* "Count total pieces on board": the number of occupied squares
total_pieces(grid) == Cardinality({pos \in Squares : get_stack_height(grid, pos) > 0})

\* is_opening_move = total_pieces < 2
is_opening_move(grid) == total_pieces(grid) < 2

\* piece_types[piece_type_idx] as Python indexes a list: a negative index
\* counts from the end, an index outside -3 .. 2 raises IndexError
piece_type_at(piece_type_idx) ==
  IF piece_type_idx \in 0 .. 2 THEN piece_types[piece_type_idx + 1]
  ELSE IF piece_type_idx \in -3 .. -1 THEN piece_types[piece_type_idx + 4]
  ELSE "IndexError"

\* the piece type written by a placement: forced to flat on an opening move
placed_type(grid, piece_type_idx) ==
  IF is_opening_move(grid) THEN "flat" ELSE piece_type_at(piece_type_idx)

\* placed_owner without the colour swap
placed_owner_own(grid, p) == p

\* the side whose piece a placement writes: the opponent on an opening move
placed_owner(grid, p) ==
  IF is_opening_move(grid) THEN -p ELSE p

\* the decrement that always takes from the flat plane
decrement_count_flats(b, p, piece_type) ==
  IF p = 1
  THEN [b EXCEPT !.flats1 = @ - 1]
  ELSE [b EXCEPT !.flats2 = @ - 1]

\* "Decrement piece count in the appropriate layer"
decrement_count(b, p, piece_type) ==
  IF p = 1
  THEN IF piece_type = "capstone"
       THEN [b EXCEPT !.caps1 = @ - 1]
       ELSE [b EXCEPT !.flats1 = @ - 1]
  ELSE IF piece_type = "capstone"
       THEN [b EXCEPT !.caps2 = @ - 1]
       ELSE [b EXCEPT !.flats2 = @ - 1]

\* apply_placement without the test height < n: on a full stack the piece
\* is written one level above the game layers
apply_placement_unguarded(b, p, action) ==
  LET piece_type_idx == action \div (N * N)
      pos == action % (N * N)
      height == get_stack_height(b.grid, pos)
      piece_type == placed_type(b.grid, piece_type_idx)
      value == piece_to_value(piece_type, placed_owner(b.grid, p))
      placed == [b EXCEPT !.grid[pos] =
                   [h \in 0 .. height |-> IF h = height THEN value ELSE @[h]]
                     @@ @]
  IN decrement_count(placed, p, piece_type)

\* placement branch (action < num_placement_actions)
apply_placement(b, p, action) ==
  LET piece_type_idx == action \div (N * N)
      pos == action % (N * N)
      height == get_stack_height(b.grid, pos)
  IN IF height < N
     THEN LET piece_type == placed_type(b.grid, piece_type_idx)
              value == piece_to_value(piece_type, placed_owner(b.grid, p))
              placed == [b EXCEPT !.grid[pos][height] = value]
          IN decrement_count(placed, p, piece_type)
     ELSE b

\* decoding of a movement index: pattern_idx, direction, position
decode_movement(action) ==
  LET action_offset == action - num_placement_actions
      remainder == action_offset % (4 * N * N)
  IN [pattern_idx |-> action_offset \div (4 * N * N),
      direction |-> remainder \div (N * N),
      position |-> remainder % (N * N)]

\* direction_vectors: up, down, left, right as (dr, dc)
direction_vectors == << << -1, 0 >>, << 1, 0 >>, << 0, -1 >>, << 0, 1 >> >>

\* pick_up that lists the carried pieces from the top of the stack down
pick_up_top_first(grid, pos, start_height, pickup_count) ==
  LET idxs == {i \in 0 .. (pickup_count - 1) :
                 start_height - 1 - i >= 0 /\ start_height - 1 - i < N}
      RECURSIVE build(_)
      build(i) == IF i >= pickup_count THEN << >>
                  ELSE IF i \in idxs
                       THEN << grid[pos][start_height - 1 - i] >> \o build(i + 1)
                       ELSE build(i + 1)
  IN build(0)

\* "Pick up pieces (from top of stack)": the carried list, bottom to top
pick_up(grid, pos, start_height, pickup_count) ==
  LET idxs == {i \in 0 .. (pickup_count - 1) :
                 start_height - pickup_count + i >= 0 /\ start_height - pickup_count + i < N}
      SeqOf(k) == grid[pos][start_height - pickup_count + k]
      RECURSIVE build(_)
      build(i) == IF i >= pickup_count THEN << >>
                  ELSE IF i \in idxs THEN << SeqOf(i) >> \o build(i + 1)
                  ELSE build(i + 1)
  IN build(0)

\* after_pick_up that zeroes the lowest cells of the stack instead of the top
after_pick_up_bottom(grid, pos, start_height, pickup_count) ==
  [grid EXCEPT ![pos] = [h \in Levels |-> IF h < pickup_count THEN 0 ELSE @[h]]]

\* the start stack after the pickup loop has zeroed the lifted cells
after_pick_up(grid, pos, start_height, pickup_count) ==
  [grid EXCEPT ![pos] = [h \in Levels |->
      IF h >= start_height - pickup_count /\ h < start_height /\ h >= 0 THEN 0 ELSE @[h]]]

\* "Drop pieces": for i in range(drop_count), write the next carried piece at
\* the first empty level if there is one (drop_height < n)
RECURSIVE drop_pieces(_, _, _, _, _, _)
drop_pieces(grid, pos, carried, carried_idx, i, drop_count) ==
  IF i >= drop_count THEN [grid |-> grid, carried_idx |-> carried_idx]
  ELSE IF carried_idx < Len(carried)
       THEN LET drop_height == get_stack_height(grid, pos)
            IN IF drop_height < N
               THEN drop_pieces([grid EXCEPT ![pos][drop_height] = carried[carried_idx + 1]],
                                pos, carried, carried_idx + 1, i + 1, drop_count)
               ELSE drop_pieces(grid, pos, carried, carried_idx, i + 1, drop_count)
       ELSE drop_pieces(grid, pos, carried, carried_idx, i + 1, drop_count)

\* is_last_drop of getNextState
is_last_drop_apply(drop_pattern, drop_count, carried_idx, carried) ==
  drop_count = drop_pattern[Len(drop_pattern)] /\ carried_idx + drop_count = Len(carried)

\* "for drop_count in drop_pattern": one iteration and the rest; ok = FALSE
\* where the code returns np.copy(board)
RECURSIVE drop_loop(_, _, _, _, _, _, _, _, _)
drop_loop(grid, carried, carried_idx, row, col, dr, dc, drop_pattern, di) ==
  IF di > Len(drop_pattern) THEN [ok |-> TRUE, grid |-> grid]
  ELSE
    LET current_row == row + dr
        current_col == col + dc
        drop_count == drop_pattern[di]
    IN IF current_row < 0 \/ current_row >= N \/ current_col < 0 \/ current_col >= N
       THEN [ok |-> FALSE, grid |-> grid]
       ELSE
         LET pos == current_row * N + current_col
             target_height == get_stack_height(grid, pos)
             top == value_to_piece(IF target_height > 0 THEN grid[pos][target_height - 1] ELSE 0)
             last == is_last_drop_apply(drop_pattern, drop_count, carried_idx, carried)
             carried_type == value_to_piece(carried[carried_idx + drop_count]).type
             flatten == target_height > 0 /\ top.type = "standing" /\ last
                        /\ carried_type = "capstone"
             blocked == target_height > 0
                        /\ (top.type = "capstone" \/ (top.type = "standing" /\ ~flatten))
             flattened == IF flatten
                          THEN [grid EXCEPT ![pos][target_height - 1] =
                                              piece_to_value("flat", top.player)]
                          ELSE grid
             dropped == drop_pieces(flattened, pos, carried, carried_idx, 0, drop_count)
         IN IF blocked THEN [ok |-> FALSE, grid |-> grid]
            ELSE drop_loop(dropped.grid, carried, dropped.carried_idx,
                           current_row, current_col, dr, dc, drop_pattern, di + 1)

\* movement_result that returns new_board where the code returns np.copy(board)
movement_result_partial(b, res) == [b EXCEPT !.grid = res.grid]

\* what the movement branch returns after the drop loop: new_board, or
\* np.copy(board) where the loop gave up
movement_result(b, res) ==
  IF res.ok THEN [b EXCEPT !.grid = res.grid] ELSE b

\* movement branch (action >= num_placement_actions)
apply_movement(b, p, action) ==
  LET d == decode_movement(action)
      start_pos == d.position
      start_row == RowOf(start_pos)
      start_col == ColOf(start_pos)
  IN IF d.pattern_idx >= Len(movement_patterns) THEN b
     ELSE
       LET pat == movement_patterns[d.pattern_idx + 1]
           dv == direction_vectors[d.direction + 1]
           start_height == get_stack_height(b.grid, start_pos)
           top_player == value_to_piece(b.grid[start_pos][start_height - 1]).player
       IN IF start_height < pat.pickup THEN b
          ELSE IF start_height > 0 /\ top_player # p THEN b
          ELSE
            LET carried == pick_up(b.grid, start_pos, start_height, pat.pickup)
                lifted == after_pick_up(b.grid, start_pos, start_height, pat.pickup)
                res == drop_loop(lifted, carried, 0, start_row, start_col,
                                 dv[1], dv[2], pat.drops, 1)
            IN movement_result(b, res)

\* getNextState whose movement branch runs on into the flat decrement
getNextState_charged(b, p, action) ==
  IF action < num_placement_actions
  THEN apply_placement(b, p, action)
  ELSE decrement_count(apply_movement(b, p, action), p, "flat")

\* getNextState: the returned board (the returned player is always -player)
getNextState(b, p, action) ==
  IF action < num_placement_actions
  THEN apply_placement(b, p, action)
  ELSE apply_movement(b, p, action)

\* ------------------------------------------------------------------------
\* getValidMoves(board, player)
\* ------------------------------------------------------------------------

\* is_last_drop that takes the first drop for the last
is_last_drop_valid_first(drop_pattern, drop_idx) == drop_idx = 0

\* is_last_drop of _is_valid_movement
is_last_drop_valid(drop_pattern, drop_idx) == drop_idx = Len(drop_pattern) - 1

\* the simulation loop of _is_valid_movement from drop_idx on (0-based)
RECURSIVE valid_loop(_, _, _, _, _, _, _, _, _)
valid_loop(grid, carried, carried_idx, row, col, dr, dc, drop_pattern, drop_idx) ==
  IF drop_idx >= Len(drop_pattern) THEN carried_idx = Len(carried)
  ELSE
    LET current_row == row + dr
        current_col == col + dc
        drop_count == drop_pattern[drop_idx + 1]
    IN IF current_row < 0 \/ current_row >= N \/ current_col < 0 \/ current_col >= N
       THEN FALSE
       ELSE
         LET pos == current_row * N + current_col
             target_height == get_stack_height(grid, pos)
             top_type == value_to_piece(IF target_height > 0
                                        THEN grid[pos][target_height - 1] ELSE 0).type
             wall_ok == /\ is_last_drop_valid(drop_pattern, drop_idx)
                        /\ carried_idx + drop_count <= Len(carried)
                        /\ value_to_piece(carried[carried_idx + drop_count]).type = "capstone"
         IN IF target_height > 0 /\ top_type = "capstone" THEN FALSE
            ELSE IF target_height > 0 /\ top_type = "standing" /\ ~wall_ok THEN FALSE
            ELSE IF carried_idx + drop_count > Len(carried) THEN FALSE
            ELSE valid_loop(grid, carried, carried_idx + drop_count,
                            current_row, current_col, dr, dc, drop_pattern, drop_idx + 1)

\* _is_valid_movement(board, start_row, start_col, direction, pickup_count, drop_pattern)
is_valid_movement(b, start_pos, direction, pickup_count, drop_pattern) ==
  LET dv == direction_vectors[direction + 1]
      start_height == get_stack_height(b.grid, start_pos)
      carried == pick_up(b.grid, start_pos, start_height, pickup_count)
  IN valid_loop(b.grid, carried, 0, RowOf(start_pos), ColOf(start_pos),
                dv[1], dv[2], drop_pattern, 0)

\* has_piece that reads the flat plane for every piece type
has_piece_flats(b, p, piece_type) ==
  (IF p = 1 THEN b.flats1 ELSE b.flats2) >= 1

\* remaining_flats >= 1.0 / remaining_capstones >= 0.5 for the player's planes
has_piece(b, p, piece_type) ==
  LET remaining_flats == IF p = 1 THEN b.flats1 ELSE b.flats2
      remaining_capstones == IF p = 1 THEN b.caps1 ELSE b.caps2
  IN IF piece_type \in {"flat", "standing"} THEN remaining_flats >= 1
     ELSE IF piece_type = "capstone" THEN 2 * remaining_capstones >= 1
     ELSE FALSE

\* valid_placement without the has_piece test on the player's supply
valid_placement_any_supply(b, p, action) ==
  get_stack_height(b.grid, action % (N * N)) = 0

\* "Check placement actions": valid[action] for a placement index
valid_placement(b, p, action) ==
  LET piece_type_idx == action \div (N * N)
      pos == action % (N * N)
  IN /\ has_piece(b, p, piece_types[piece_type_idx + 1])
     /\ get_stack_height(b.grid, pos) = 0

\* "Check movement actions": valid[action] for a movement index
valid_movement(b, p, action) ==
  LET d == decode_movement(action)
  IN /\ d.pattern_idx < Len(movement_patterns)
     /\ LET pat == movement_patterns[d.pattern_idx + 1]
            start_height == get_stack_height(b.grid, d.position)
        IN /\ start_height # 0
           /\ pat.pickup <= start_height
           /\ pat.pickup <= N
           /\ value_to_piece(b.grid[d.position][start_height - 1]).player = p
           /\ is_valid_movement(b, d.position, d.direction, pat.pickup, pat.drops)

\* getValidMoves(board, player)[action] = 1
getValidMoves(b, p, action) ==
  IF action < num_placement_actions
  THEN valid_placement(b, p, action)
  ELSE valid_movement(b, p, action)

\* ------------------------------------------------------------------------
\* Terminal detection: _check_road / _has_road_from
\* ------------------------------------------------------------------------

\* the neighbour offsets in the order the BFS tries them
road_neighbours == << << 0, 1 >>, << 0, -1 >>, << 1, 0 >>, << -1, 0 >> >>

\* "Check if this position is part of the road": top piece is the target
\* flat or capstone
is_road_square(grid, pos, target_flat, target_cap) ==
  LET height == get_stack_height(grid, pos)
  IN height > 0 /\ grid[pos][height - 1] \in {target_flat, target_cap}

\* the "for dr, dc in [...]" loop for the square (row, col) from neighbour i
\* on: the queue and visited set it leaves
RECURSIVE visit_neighbours(_, _, _, _, _, _, _, _)
visit_neighbours(grid, row, col, i, queue, visited, target_flat, target_cap) ==
  IF i > Len(road_neighbours) THEN [queue |-> queue, visited |-> visited]
  ELSE
    LET new_row == row + road_neighbours[i][1]
        new_col == col + road_neighbours[i][2]
        new_pos == new_row * N + new_col
        skip == \/ << new_row, new_col >> \in visited
                \/ new_row < 0 \/ new_row >= N \/ new_col < 0 \/ new_col >= N
                \/ ~is_road_square(grid, new_pos, target_flat, target_cap)
    IN IF skip
       THEN visit_neighbours(grid, row, col, i + 1, queue, visited, target_flat, target_cap)
       ELSE visit_neighbours(grid, row, col, i + 1, Append(queue, << new_row, new_col >>),
                             visited \cup {<< new_row, new_col >>}, target_flat, target_cap)

\* the "while queue" loop of _has_road_from
RECURSIVE road_bfs(_, _, _, _, _, _)
road_bfs(grid, queue, visited, target_flat, target_cap, direction) ==
  IF queue = << >> THEN FALSE
  ELSE
    LET row == Head(queue)[1]
        col == Head(queue)[2]
    IN IF direction = "horizontal" /\ col = N - 1 THEN TRUE
       ELSE IF direction = "vertical" /\ row = N - 1 THEN TRUE
       ELSE LET r == visit_neighbours(grid, row, col, 1, Tail(queue), visited,
                                      target_flat, target_cap)
            IN road_bfs(grid, r.queue, r.visited, target_flat, target_cap, direction)

\* _has_road_from(board, start_row, start_col, target_flat, target_cap, direction)
has_road_from(b, start_row, start_col, target_flat, target_cap, direction) ==
  LET start_pos == start_row * N + start_col
  IN /\ is_road_square(b.grid, start_pos, target_flat, target_cap)
     /\ road_bfs(b.grid, << << start_row, start_col >> >>, {<< start_row, start_col >>},
                 target_flat, target_cap, direction)

\* _check_road that starts the search at square (0, 0) only
check_road_corner(b, p) ==
  LET target_flat == IF p = 1 THEN 1 ELSE 2
      target_cap == IF p = 1 THEN 5 ELSE 6
  IN \/ has_road_from(b, 0, 0, target_flat, target_cap, "horizontal")
     \/ has_road_from(b, 0, 0, target_flat, target_cap, "vertical")

\* _check_road(board, player)
check_road(b, p) ==
  LET target_flat == IF p = 1 THEN 1 ELSE 2
      target_cap == IF p = 1 THEN 5 ELSE 6
  IN \/ \E row \in 0 .. (N - 1) :
          has_road_from(b, row, 0, target_flat, target_cap, "horizontal")
     \/ \E col \in 0 .. (N - 1) :
          has_road_from(b, 0, col, target_flat, target_cap, "vertical")

\* ------------------------------------------------------------------------
\* getGameEnded(board, player)
\* ------------------------------------------------------------------------

\* the values getGameEnded returns, in units of 0.0001: 1 (win), -1 (loss),
\* 0.0001 (draw) and 0 (game continues)
Won == 10000
Lost == -10000
Draw == 1
Ongoing == 0

\* _is_board_full that looks at row 0 only
is_board_full_row0(b) ==
  \A pos \in {pos \in Squares : RowOf(pos) = 0} : get_stack_height(b.grid, pos) # 0

\* _is_board_full(board): no square has height 0
is_board_full(b) ==
  \A pos \in Squares : get_stack_height(b.grid, pos) # 0

\* _count_flats that also counts the side's standing stones
count_flats_standing(b, p) ==
  LET target_flat == IF p = 1 THEN 1 ELSE 2
      target_cap == IF p = 1 THEN 5 ELSE 6
  IN Cardinality({pos \in Squares :
       LET height == get_stack_height(b.grid, pos)
       IN height > 0 /\ b.grid[pos][height - 1] \in {target_flat, target_flat + 2, target_cap}})

\* _count_flats(board, player): squares whose top is the side's flat or capstone
count_flats(b, p) ==
  LET target_flat == IF p = 1 THEN 1 ELSE 2
      target_cap == IF p = 1 THEN 5 ELSE 6
  IN Cardinality({pos \in Squares :
       LET height == get_stack_height(b.grid, pos)
       IN height > 0 /\ b.grid[pos][height - 1] \in {target_flat, target_cap}})

\* the flat-count decision of a full board
flat_count_result(b, p) ==
  LET score == count_flats(b, p) - count_flats(b, -p)
  IN IF score > 0 THEN Won
     ELSE IF score < 0 THEN Lost
     ELSE Draw

\* getGameEnded that tests the road of the given side only
getGameEnded_own_road(b, p) ==
  IF check_road(b, p) THEN Won
  ELSE IF is_board_full(b) THEN flat_count_result(b, p)
  ELSE Ongoing

\* getGameEnded(board, player)
getGameEnded(b, p) ==
  IF check_road(b, p) THEN Won
  ELSE IF check_road(b, -p) THEN Lost
  ELSE IF is_board_full(b) THEN flat_count_result(b, p)
  ELSE Ongoing

\* ------------------------------------------------------------------------
\* getCanonicalForm(board, player), stringRepresentation(board)
\* ------------------------------------------------------------------------

\* the owner swap done one value after the other: 1 -> 2, then 2 -> 1, ...
swap_owner_sequential(v) ==
  LET a == IF v = 1 THEN 2 ELSE v
      b == IF a = 2 THEN 1 ELSE a
      c == IF b = 3 THEN 4 ELSE b
      d == IF c = 4 THEN 3 ELSE c
      e == IF d = 5 THEN 6 ELSE d
  IN IF e = 6 THEN 5 ELSE e

\* the masked assignments of one cell: the masks of a pair of values are both
\* taken before either is written, so 1 <-> 2, 3 <-> 4, 5 <-> 6
swap_owner(v) ==
  CASE v = 1 -> 2 [] v = 2 -> 1
    [] v = 3 -> 4 [] v = 4 -> 3
    [] v = 5 -> 6 [] v = 6 -> 5
    [] OTHER -> v

\* canonical_swapped that exchanges the flats only (1 <-> 2)
canonical_swapped_flats(b) ==
  [grid |-> [pos \in Squares |-> [h \in Levels |->
               IF b.grid[pos][h] \in {1, 2} THEN swap_owner(b.grid[pos][h])
               ELSE b.grid[pos][h]]],
   flats1 |-> b.flats2,
   caps1 |-> b.caps2,
   flats2 |-> b.flats1,
   caps2 |-> b.caps1]

\* the contents of "canonical" after the owner swap and the plane swap
canonical_swapped(b) ==
  [grid |-> [pos \in Squares |-> [h \in Levels |-> swap_owner(b.grid[pos][h])]],
   flats1 |-> b.flats2,
   caps1 |-> b.caps2,
   flats2 |-> b.flats1,
   caps2 |-> b.caps1]

\* getCanonicalForm that leaves the count planes where they are
getCanonicalForm_planes_kept(b, p) ==
  IF p = 1 THEN b
  ELSE [b EXCEPT !.grid = canonical_swapped(b).grid]

\* getCanonicalForm(board, player): the contents of the board returned
getCanonicalForm(b, p) ==
  IF p = 1 THEN b ELSE canonical_swapped(b)

\* board.tobytes(): the cells of the array in C order, the n game layers
\* level by level, then the four count planes, each cell of a plane holding
\* the plane's value (the 4 bytes of a float32 determine its value and are
\* determined by it)
stringRepresentation(b) ==
  [i \in 1 .. ((N + 4) * N * N) |->
     LET layer == (i - 1) \div (N * N)
         pos == (i - 1) % (N * N)
     IN IF layer < N THEN b.grid[pos][layer]
        ELSE IF layer = N THEN b.flats1
        ELSE IF layer = N + 1 THEN b.caps1
        ELSE IF layer = N + 2 THEN b.flats2
        ELSE b.caps2]

\* ------------------------------------------------------------------------
\* Calls on board objects: which object a call writes and which it returns
\* ------------------------------------------------------------------------

\* "new_board = board": the name is bound to the same object
np_copy_same(h, ref) == [heap |-> h, ref |-> ref]

\* np.copy(board): a new object with the contents of the object ref
np_copy(h, ref) == [heap |-> Append(h, h[ref]), ref |-> Len(h) + 1]

\* the placement branch raises IndexError at piece_types[piece_type_idx]:
\* the lookup is made when the square has room, before the opening test
raises_index_error(b, a) ==
  /\ a < num_placement_actions
  /\ get_stack_height(b.grid, a % (N * N)) < N
  /\ piece_type_at(a \div (N * N)) = "IndexError"

\* getNextState(board, player, action) on the object ref, for any integer
\* action: the copy is written and returned (the abandoned-move returns hand
\* out another fresh copy with the contents of board); ref 0 and raised when
\* the call ends in an exception
getNextState_call(h, ref, p, a) ==
  LET c == np_copy(h, ref)
  IN IF raises_index_error(c.heap[c.ref], a)
     THEN [heap |-> c.heap, ref |-> 0, raised |-> TRUE]
     ELSE [heap |-> [c.heap EXCEPT ![c.ref] = getNextState(c.heap[c.ref], p, a)],
           ref |-> c.ref, raised |-> FALSE]

\* getCanonicalForm(board, player) on the object ref: "return board" for
\* player 1, a written copy otherwise
getCanonicalForm_call(h, ref, p) ==
  IF p = 1 THEN [heap |-> h, ref |-> ref, raised |-> FALSE]
  ELSE LET c == np_copy(h, ref)
       IN [heap |-> [c.heap EXCEPT ![c.ref] = getCanonicalForm(c.heap[c.ref], p)],
           ref |-> c.ref, raised |-> FALSE]

\* ------------------------------------------------------------------------
\* State: the caller's current board and side to move, and the last call
\* ------------------------------------------------------------------------

\* board, player: the caller's board and side to move; ply: calls and
\* writes made so far; op, prevBoard, mover, action, ret: the last engine
\* call, the board and side it was given, its action index (-1 if none) and
\* the value a query returned; size: self.n of the game object the action
\* codec is asked about (N wherever a board is involved); heap: the
\* objects alive where object identity matters (board arrays, and in
\* SpecShared the game object the callers share), heap[r] being the contents
\* of the object with reference r (empty elsewhere)
VARIABLES board, player, ply, op, prevBoard, mover, action, ret, size, heap

vars == << board, player, ply, op, prevBoard, mover, action, ret, size, heap >>

\* the state after construction: getInitBoard, white to move, no call made
Init ==
  /\ board = getInitBoard
  /\ player = 1
  /\ ply = 0
  /\ op = "init"
  /\ prevBoard = getInitBoard
  /\ mover = 1
  /\ action = -1
  /\ ret = FALSE
  /\ size = N
  /\ heap = << >>

\* the side getNextState returns after a call that leaves the turn with p
next_player_keep(p) == p

\* the side getNextState returns as next to move: "return new_board, -player"
next_player(p) == -p

\* the caller applies getNextState with index a for the side to move
Apply(a) ==
  /\ board' = getNextState(board, player, a)
  /\ player' = next_player(player)
  /\ ply' = ply + 1
  /\ op' = "getNextState"
  /\ prevBoard' = board
  /\ mover' = player
  /\ action' = a
  /\ ret' = ret
  /\ size' = size
  /\ heap' = heap

\* a game move: a placement that getValidMoves marks valid
Place ==
  /\ ply < MaxPly
  /\ \E a \in PlacementActions : getValidMoves(board, player, a) /\ Apply(a)

\* a game move: a movement that getValidMoves marks valid
Move ==
  /\ ply < MaxPly
  /\ \E a \in MovementActions : getValidMoves(board, player, a) /\ Apply(a)

Next == Place \/ Move

Spec == Init /\ [][Next]_vars

\* ------------------------------------------------------------------------
\* Properties of a game played from getInitBoard (Spec)
\* ------------------------------------------------------------------------

\* number of cells of the grid holding one of the values vs
CountCells(grid, vs) ==
  Cardinality({c \in Squares \X Levels : grid[c[1]][c[2]] \in vs})

FlatsOf(b, s) == IF s = 1 THEN b.flats1 ELSE b.flats2
CapsOf(b, s) == IF s = 1 THEN b.caps1 ELSE b.caps2

\* values of the flats and standing stones / of the capstones of side s
StoneValues(s) == IF s = 1 THEN {1, 3} ELSE {2, 4}
CapValues(s) == IF s = 1 THEN {5} ELSE {6}

\* the cells whose content differs between two grids
ChangedCells(g1, g2) == {c \in Squares \X Levels : g1[c[1]][c[2]] # g2[c[1]][c[2]]}

\* the square a placement index names, and the kind it encodes (0, 1, 2)
PlacementSquare(a) == a % (N * N)
PlacementKind(a) == a \div (N * N)

\* C1: at every step of a game of valid actions, for each side the stones
\* (flats and standing stones) it owns on the board plus its remaining flat
\* counter equal its flat allotment, and likewise for capstones.
C1_SupplyConservation ==
  \A s \in Players :
    /\ CountCells(board.grid, StoneValues(s)) + FlatsOf(board, s) = standard_pieces.flats
    /\ CountCells(board.grid, CapValues(s)) + CapsOf(board, s) = standard_pieces.capstones

\* C2: on plies 0 and 1, getNextState with any placement index writes
\* exactly one new piece, a flat of the mover's opponent, whatever kind the
\* index encodes.
C2_OpeningPlacesOpponentFlat ==
  ply <= 1 =>
    \A a \in PlacementActions :
      LET nb == getNextState(board, player, a)
          changed == ChangedCells(board.grid, nb.grid)
      IN /\ Cardinality(changed) = 1
         /\ \A c \in changed :
              /\ c[1] = PlacementSquare(a)
              /\ board.grid[c[1]][c[2]] = 0
              /\ nb.grid[c[1]][c[2]] = (IF player = 1 THEN 2 ELSE 1)
              /\ \A h \in Levels : h < c[2] => board.grid[c[1]][h] # 0

\* C2 witness: the second opening ply was played with a standing-stone index
\* and left a flat of the mover's opponent on the named square.
C2_Witness ==
  /\ ply = 2
  /\ action \in PlacementActions
  /\ PlacementKind(action) = 1
  /\ get_stack_height(prevBoard.grid, PlacementSquare(action)) = 0
  /\ board.grid[PlacementSquare(action)][0] = (IF mover = 1 THEN 2 ELSE 1)
  /\ CountCells(board.grid, 1 .. 6) = CountCells(prevBoard.grid, 1 .. 6) + 1

\* C3: a placement on ply 0 or 1 takes the flat from the supply of the side
\* that owns it (the mover's opponent) and leaves the mover's counters alone.
C3_OpeningDrawsFromOwner ==
  (action \in PlacementActions /\ ply \in {1, 2}) =>
    /\ FlatsOf(board, -mover) = FlatsOf(prevBoard, -mover) - 1
    /\ FlatsOf(board, mover) = FlatsOf(prevBoard, mover)
    /\ CapsOf(board, mover) = CapsOf(prevBoard, mover)

\* C4: every placement made after two plies have been played writes a piece
\* of the mover, of the kind the index encodes, and takes it from the mover's
\* own supply.
C4_OwnPieceAfterOpening ==
  (action \in PlacementActions /\ ply >= 3) =>
    LET pos == PlacementSquare(action)
        kind == PlacementKind(action)
        h == get_stack_height(prevBoard.grid, pos)
        want == (IF mover = 1 THEN 1 ELSE 2) + 2 * kind
    IN /\ h < N
       /\ board.grid[pos][h] = want
       /\ FlatsOf(board, mover) = FlatsOf(prevBoard, mover) - (IF kind = 2 THEN 0 ELSE 1)
       /\ CapsOf(board, mover) = CapsOf(prevBoard, mover) - (IF kind = 2 THEN 1 ELSE 0)
       /\ FlatsOf(board, -mover) = FlatsOf(prevBoard, -mover)
       /\ CapsOf(board, -mover) = CapsOf(prevBoard, -mover)

\* ------------------------------------------------------------------------
\* Movement calls on hand-built boards (SpecMove): the caller builds a
\* position on one row, as the tests do by writing cells or by stacking
\* placements, and makes one getNextState call with any movement index.
\* ------------------------------------------------------------------------

\* bound on the number of pieces of a hand-built movement position
MaxSeedPieces == 4

\* the row on which the position is built
SeedLine == {pos \in Squares : RowOf(pos) = 1}

\* a stack of the grid from its pieces, bottom to top
StackOf(pieces) == [h \in Levels |-> IF h < Len(pieces) THEN pieces[h + 1] ELSE 0]

\* stacks of height 0..N: flats of either side below, any piece on top
SeedStacks ==
  {EmptyStack} \cup
  UNION {{StackOf(below \o << top >>) : below \in [1 .. (k - 1) -> {1, 2}], top \in 1 .. 6}
         : k \in 1 .. N}

PiecesIn(stack) == Cardinality({h \in Levels : stack[h] # 0})

RECURSIVE SumOver(_, _)
SumOver(f, S) ==
  IF S = {} THEN 0
  ELSE LET x == CHOOSE x \in S : TRUE IN f[x] + SumOver(f, S \ {x})

\* the count planes after building the position with each side's own pieces
SeedBoard(grid) ==
  [grid |-> grid,
   flats1 |-> standard_pieces.flats - CountCells(grid, StoneValues(1)),
   caps1 |-> standard_pieces.capstones - CountCells(grid, CapValues(1)),
   flats2 |-> standard_pieces.flats - CountCells(grid, StoneValues(-1)),
   caps2 |-> standard_pieces.capstones - CountCells(grid, CapValues(-1))]

SeedGrids ==
  {[pos \in Squares |-> IF pos \in SeedLine THEN f[pos] ELSE EmptyStack] :
     f \in {f \in [SeedLine -> SeedStacks] :
              SumOver([pos \in SeedLine |-> PiecesIn(f[pos])], SeedLine) <= MaxSeedPieces}}

InitMove ==
  /\ board \in {SeedBoard(g) : g \in SeedGrids}
  /\ player \in Players
  /\ ply = 0
  /\ op = "init"
  /\ prevBoard = board
  /\ mover = player
  /\ action = -1
  /\ ret = FALSE
  /\ size = N
  /\ heap = << >>

\* one forced call with a movement index, valid or not
ForceMove ==
  /\ ply = 0
  /\ \E a \in MovementActions : Apply(a)

NextMove == ForceMove

SpecMove == InitMove /\ [][NextMove]_vars

\* ------------------------------------------------------------------------
\* Properties of movements
\* ------------------------------------------------------------------------

\* the pieces of a square, bottom to top
RECURSIVE PiecesFrom(_, _)
PiecesFrom(stack, h) ==
  IF h >= N \/ stack[h] = 0 THEN << >> ELSE << stack[h] >> \o PiecesFrom(stack, h + 1)

PiecesAt(grid, pos) == PiecesFrom(grid[pos], 0)

\* the top piece of a square, 0 if it is empty
TopAt(grid, pos) ==
  LET ps == PiecesAt(grid, pos) IN IF ps = << >> THEN 0 ELSE ps[Len(ps)]

OwnerOf(v) == IF v \in {1, 3, 5} THEN 1 ELSE IF v \in {2, 4, 6} THEN -1 ELSE 0
Walls == {3, 4}
Caps == {5, 6}

\* a movement index read as (start square, direction, pickup, drops)
MoveStart(a) == decode_movement(a).position
MovePattern(a) == movement_patterns[decode_movement(a).pattern_idx + 1]
MoveDrops(a) == MovePattern(a).drops
MovePickup(a) == MovePattern(a).pickup

\* row and column of the i-th square from the start in the direction
\* (up = row - 1, down = row + 1, left = col - 1, right = col + 1)
StepRow(a, i) ==
  LET dir == decode_movement(a).direction
  IN RowOf(MoveStart(a)) + (IF dir = 0 THEN -i ELSE IF dir = 1 THEN i ELSE 0)
StepCol(a, i) ==
  LET dir == decode_movement(a).direction
  IN ColOf(MoveStart(a)) + (IF dir = 2 THEN -i ELSE IF dir = 3 THEN i ELSE 0)
StepOnBoard(a, i) ==
  StepRow(a, i) \in 0 .. (N - 1) /\ StepCol(a, i) \in 0 .. (N - 1)
StepSquare(a, i) == StepRow(a, i) * N + StepCol(a, i)

\* the legality conditions of a movement as the rules state them
MovementLegal(b, p, a) ==
  LET start == PiecesAt(b.grid, MoveStart(a))
      m == Len(MoveDrops(a))
  IN /\ Len(start) >= MovePickup(a)
     /\ OwnerOf(TopAt(b.grid, MoveStart(a))) = p
     /\ \A i \in 1 .. m : StepOnBoard(a, i)
     /\ \A i \in 1 .. (m - 1) : TopAt(b.grid, StepSquare(a, i)) \notin Walls \cup Caps
     /\ TopAt(b.grid, StepSquare(a, m)) \notin Caps
     /\ TopAt(b.grid, StepSquare(a, m)) \in Walls => start[Len(start)] \in Caps

\* C5: getValidMoves marks a movement valid iff the start stack is at least
\* as high as the pickup, the mover owns its top piece, every square stepped
\* to is on the board, no square before the last is topped by a standing
\* stone or capstone, and the last square is not topped by a capstone and is
\* topped by a standing stone only if the top carried piece is a capstone.
C5_MovementValidity ==
  action \in MovementActions =>
    (getValidMoves(prevBoard, mover, action) <=> MovementLegal(prevBoard, mover, action))

\* C5 witness: a two-drop movement was called that is marked valid and ends
\* with a capstone on a standing stone.
C5_Witness ==
  /\ action \in MovementActions
  /\ getValidMoves(prevBoard, mover, action)
  /\ Len(MoveDrops(action)) = 2
  /\ TopAt(prevBoard.grid, StepSquare(action, 2)) \in Walls
  /\ TopAt(prevBoard.grid, MoveStart(action)) \in Caps

\* the flattening exception applies to the i-th square of the movement
Flattens(b, a, i) ==
  /\ i = Len(MoveDrops(a))
  /\ TopAt(b.grid, StepSquare(a, i)) \in Walls
  /\ TopAt(b.grid, MoveStart(a)) \in Caps

\* a stack with its top standing stone turned into a flat of the same owner
FlattenTop(ps) == [ps EXCEPT ![Len(ps)] = @ - 2]

RECURSIVE SumSeq(_, _)
SumSeq(q, i) == IF i = 0 THEN 0 ELSE q[i] + SumSeq(q, i - 1)

\* the pieces a valid movement must leave on square pos
ExpectedPieces(b, a, pos) ==
  LET start == PiecesAt(b.grid, MoveStart(a))
      k == MovePickup(a)
      drops == MoveDrops(a)
      carried == SubSeq(start, Len(start) - k + 1, Len(start))
      old == PiecesAt(b.grid, pos)
  IN IF pos = MoveStart(a) THEN SubSeq(start, 1, Len(start) - k)
     ELSE IF \E i \in 1 .. Len(drops) : StepSquare(a, i) = pos
     THEN LET i == CHOOSE i \in 1 .. Len(drops) : StepSquare(a, i) = pos
              below == IF Flattens(b, a, i) THEN FlattenTop(old) ELSE old
          IN below \o SubSeq(carried, SumSeq(drops, i - 1) + 1, SumSeq(drops, i))
     ELSE old

\* C7: a valid movement removes the top k pieces of the start stack, lays
\* the carried pieces in their bottom-to-top order on the successive squares
\* in the direction, di of them on the i-th square on top of what it held
\* (a standing stone under a final capstone being flattened), and changes no
\* other square.
C7_MovementEffect ==
  (action \in MovementActions /\ getValidMoves(prevBoard, mover, action)) =>
    \A pos \in Squares :
      PiecesAt(board.grid, pos) = ExpectedPieces(prevBoard, action, pos)

\* C8: when the final drop of a valid movement lands on a standing stone
\* and the top carried piece is a capstone, the stack there ends as the old
\* stack with that stone turned into a flat of the same owner, the dropped
\* pieces directly above it, and the capstone on top.
C8_CapstoneFlattens ==
  (/\ action \in MovementActions
   /\ getValidMoves(prevBoard, mover, action)
   /\ Flattens(prevBoard, action, Len(MoveDrops(action)))) =>
    LET m == Len(MoveDrops(action))
        pos == StepSquare(action, m)
        old == PiecesAt(prevBoard.grid, pos)
        now == PiecesAt(board.grid, pos)
    IN /\ Len(now) = Len(old) + MoveDrops(action)[m]
       /\ SubSeq(now, 1, Len(old)) = FlattenTop(old)
       /\ now[Len(old)] \in {1, 2}
       /\ OwnerOf(now[Len(old)]) = OwnerOf(old[Len(old)])
       /\ now[Len(now)] = TopAt(prevBoard.grid, MoveStart(action))
       /\ now[Len(now)] \in Caps

\* C9: a movement index that getValidMoves does not mark valid leaves the
\* stacks and the four supply counters as they were.
C9_IllegalMovementNoChange ==
  (action \in MovementActions /\ ~getValidMoves(prevBoard, mover, action)) =>
    board = prevBoard

\* C9 witness: a two-drop movement by the owner of the start stack was
\* called whose first square is free and whose second square is topped by a
\* capstone, and the board is as before.
C9_Witness ==
  /\ action \in MovementActions
  /\ ~getValidMoves(prevBoard, mover, action)
  /\ Len(MoveDrops(action)) = 2
  /\ Len(PiecesAt(prevBoard.grid, MoveStart(action))) >= MovePickup(action)
  /\ OwnerOf(TopAt(prevBoard.grid, MoveStart(action))) = mover
  /\ StepOnBoard(action, 2)
  /\ TopAt(prevBoard.grid, StepSquare(action, 1)) = 0
  /\ TopAt(prevBoard.grid, StepSquare(action, 2)) \in Caps
  /\ board = prevBoard

\* ------------------------------------------------------------------------
\* Placement calls on hand-built boards (SpecPlace): a row position and
\* count planes near exhaustion, then one getNextState call with any
\* placement index.
\* ------------------------------------------------------------------------

\* bound on the number of pieces of a hand-built placement position
MaxPlacePieces == 2

\* bound on the remaining counts of a hand-built placement position
MaxSeedSupply == 1

SeedSupplies == 0 .. MaxSeedSupply

PlaceGrids ==
  {[pos \in Squares |-> IF pos \in SeedLine THEN f[pos] ELSE EmptyStack] :
     f \in {f \in [SeedLine -> SeedStacks] :
              SumOver([pos \in SeedLine |-> PiecesIn(f[pos])], SeedLine) <= MaxPlacePieces}}

InitPlace ==
  /\ board \in {[grid |-> g, flats1 |-> f1, caps1 |-> c1, flats2 |-> f2, caps2 |-> c2] :
                  g \in PlaceGrids, f1 \in SeedSupplies, c1 \in SeedSupplies,
                  f2 \in SeedSupplies, c2 \in SeedSupplies}
  /\ player \in Players
  /\ ply = 0
  /\ op = "init"
  /\ prevBoard = board
  /\ mover = player
  /\ action = -1
  /\ ret = FALSE
  /\ size = N
  /\ heap = << >>

\* one forced call with a placement index, valid or not
ForcePlace ==
  /\ ply = 0
  /\ \E a \in PlacementActions : Apply(a)

NextPlace == ForcePlace

SpecPlace == InitPlace /\ [][NextPlace]_vars

\* the legality conditions of a placement as the rules state them, the
\* placing side being the side to move whose planes getValidMoves reads
PlacementLegal(b, p, a) ==
  /\ PiecesAt(b.grid, PlacementSquare(a)) = << >>
  /\ \/ PlacementKind(a) \in {0, 1} /\ FlatsOf(b, p) >= 1
     \/ PlacementKind(a) = 2 /\ CapsOf(b, p) >= 1

\* C6: getValidMoves marks a placement of kind K at square S valid iff S is
\* empty and the placing side has a flat left (K flat or standing) or a
\* capstone left (K capstone); so on an empty board with flats and a
\* capstone in supply all 3 n^2 placements are valid.
C6_PlacementValidity ==
  action \in PlacementActions =>
    /\ getValidMoves(prevBoard, mover, action) <=> PlacementLegal(prevBoard, mover, action)
    /\ (/\ CountCells(prevBoard.grid, 1 .. 6) = 0
        /\ FlatsOf(prevBoard, mover) >= 1
        /\ CapsOf(prevBoard, mover) >= 1)
         => \A a \in PlacementActions : getValidMoves(prevBoard, mover, a)

\* C6 witness: a capstone placement marked valid was called on an empty
\* board whose mover has a capstone and no flat left.
C6_Witness ==
  /\ action \in PlacementActions
  /\ PlacementKind(action) = 2
  /\ getValidMoves(prevBoard, mover, action)
  /\ CountCells(prevBoard.grid, 1 .. 6) = 0
  /\ FlatsOf(prevBoard, mover) = 0
  /\ CapsOf(prevBoard, mover) = 1

\* ------------------------------------------------------------------------
\* Road queries on hand-built boards (SpecRoad): the caller writes pieces
\* into an empty board, as the tests do, and asks _check_road for a side.
\* ------------------------------------------------------------------------

\* bound on the number of pieces written before the road query
MaxRoadPieces == 3

\* the caller writes piece v on top of square pos (only flats get covered)
HandWrite ==
  /\ op = "init"
  /\ ply < MaxRoadPieces
  /\ \E pos \in Squares, v \in 1 .. 6 :
       LET height == get_stack_height(board.grid, pos)
       IN /\ height < N
          /\ height > 0 => board.grid[pos][height - 1] \in {1, 2}
          /\ board' = [board EXCEPT !.grid[pos][height] = v]
          /\ prevBoard' = board'
  /\ ply' = ply + 1
  /\ UNCHANGED << player, op, mover, action, ret, size, heap >>

\* the caller asks _check_road(board, p)
CheckRoad ==
  /\ op = "init"
  /\ \E p \in Players :
       /\ ret' = check_road(board, p)
       /\ mover' = p
  /\ op' = "_check_road"
  /\ UNCHANGED << board, player, ply, prevBoard, action, size, heap >>

NextRoad == HandWrite \/ CheckRoad

SpecRoad == Init /\ [][NextRoad]_vars

\* the squares whose top piece is a flat or capstone of side p
RoadSquares(b, p) ==
  {pos \in Squares : TopAt(b.grid, pos) \in (IF p = 1 THEN {1, 5} ELSE {2, 6})}

Adjacent(x, y) ==
  \/ RowOf(x) = RowOf(y) /\ ColOf(x) - ColOf(y) \in {1, -1}
  \/ ColOf(x) = ColOf(y) /\ RowOf(x) - RowOf(y) \in {1, -1}

\* the squares of S joined to those of R by steps inside S
RECURSIVE Joined(_, _)
Joined(R, S) ==
  LET more == R \cup {y \in S : \E x \in R : Adjacent(x, y)}
  IN IF more = R THEN R ELSE Joined(more, S)

IsConnected(S) == S # {} /\ Joined({CHOOSE x \in S : TRUE}, S) = S

\* a 4-connected set of road squares of p joining two opposite edges
RoadExists(b, p) ==
  \E S \in SUBSET RoadSquares(b, p) :
    /\ IsConnected(S)
    /\ \/ (\E x \in S : ColOf(x) = 0) /\ (\E x \in S : ColOf(x) = N - 1)
       \/ (\E x \in S : RowOf(x) = 0) /\ (\E x \in S : RowOf(x) = N - 1)

MaxEndOthers == 2

\* what those squares carry: nothing, a white standing stone, a black
\* capstone
EndOtherValues == {0, 3, 6}

\* the grid with piece t[pos] (0 = none) at level 0 of each square
GridOfTops(t) ==
  [pos \in Squares |-> [h \in Levels |-> IF h = 0 THEN t[pos] ELSE 0]]

InitEnd ==
  /\ \/ board = getInitBoard
     \/ \E S \in SUBSET Squares :
          /\ Cardinality(S) <= MaxEndOthers
          /\ \E f \in [S -> EndOtherValues], g \in [Squares \ S -> 1 .. 2] :
               board = [getInitBoard EXCEPT
                          !.grid = GridOfTops([pos \in Squares |->
                                     IF pos \in S THEN f[pos] ELSE g[pos]])]
  /\ player = 1
  /\ ply = 0
  /\ op = "init"
  /\ prevBoard = board
  /\ mover = 1
  /\ action = -1
  /\ ret = FALSE
  /\ size = N
  /\ heap = << >>

\* the caller asks getGameEnded(board, p); mover records the perspective p
GameEnded ==
  /\ op \in {"init", "getNextState"}
  /\ \E p \in Players :
       /\ ret' = getGameEnded(board, p)
       /\ mover' = p
  /\ op' = "getGameEnded"
  /\ UNCHANGED << board, player, ply, prevBoard, action, size, heap >>

NextEnd == GameEnded

SpecEnd == InitEnd /\ [][NextEnd]_vars

\* side p has a road: the squares topped by its flats or capstones join the
\* left edge to the right edge or the top edge to the bottom edge
RoadJoins(b, p) ==
  LET S == RoadSquares(b, p)
  IN \/ \E x \in Joined({y \in S : ColOf(y) = 0}, S) : ColOf(x) = N - 1
     \/ \E x \in Joined({y \in S : RowOf(y) = 0}, S) : RowOf(x) = N - 1

\* number of squares topped by a flat or capstone of side p
FlatTops(b, p) == Cardinality(RoadSquares(b, p))

EmptySquares(b) == {pos \in Squares : TopAt(b.grid, pos) = 0}

\* C12: on every board on which exactly one side S has a road, getGameEnded
\* returns 1 when asked from S's perspective and -1 from the opponent's,
\* whether or not the board is full and whatever the flat counts are.
C12_SingleRoad ==
  op = "getGameEnded" =>
    \A S \in Players :
      (RoadJoins(board, S) /\ ~RoadJoins(board, -S)) =>
        ret = (IF mover = S THEN Won ELSE Lost)

\* C12 witness: white, asked on a board that is not full, where only black
\* has a road and white tops more squares than black, was told it lost.
C12_Witness ==
  /\ op = "getGameEnded"
  /\ mover = 1
  /\ RoadJoins(board, -1)
  /\ ~RoadJoins(board, 1)
  /\ EmptySquares(board) # {}
  /\ FlatTops(board, 1) > FlatTops(board, -1)
  /\ ret = Lost

\* C13: on a full board without a road, getGameEnded(board, p) is a win for
\* p if p tops strictly more squares with its flats and capstones than the
\* opponent, a loss if strictly fewer, and the draw value 0.0001 if equal;
\* squares topped by standing stones count for nobody.
C13_FlatCount ==
  (/\ op = "getGameEnded"
   /\ EmptySquares(board) = {}
   /\ ~RoadJoins(board, 1)
   /\ ~RoadJoins(board, -1)) =>
    ret = (IF FlatTops(board, mover) > FlatTops(board, -mover) THEN Won
           ELSE IF FlatTops(board, mover) < FlatTops(board, -mover) THEN Lost
           ELSE Draw)

\* C13 witness: a full board without a road, one square topped by a standing
\* stone and four squares topped by each side, was reported a draw.
C13_Witness ==
  /\ op = "getGameEnded"
  /\ EmptySquares(board) = {}
  /\ ~RoadJoins(board, 1)
  /\ ~RoadJoins(board, -1)
  /\ \E pos \in Squares : TopAt(board.grid, pos) \in Walls
  /\ FlatTops(board, 1) = FlatTops(board, -1)
  /\ ret = Draw

\* C14: getGameEnded returns 0 (game continues) iff neither side has a road
\* and at least one square is empty; the empty initial board is ongoing.
C14_OngoingExact ==
  op = "getGameEnded" =>
    /\ ret = Ongoing <=> (/\ ~RoadJoins(board, 1)
                          /\ ~RoadJoins(board, -1)
                          /\ EmptySquares(board) # {})
    /\ board = getInitBoard => ret = Ongoing

\* C14 witness: a board with a single empty square and no road was reported
\* ongoing.
C14_Witness ==
  /\ op = "getGameEnded"
  /\ Cardinality(EmptySquares(board)) = 1
  /\ ret = Ongoing

\* ------------------------------------------------------------------------
\* A movement followed by getGameEnded (SpecDouble): hand-built positions of
\* flats on rows 1 .. n-1, white to move, one valid movement, then the
\* result is asked from either perspective
\* ------------------------------------------------------------------------

\* bound on the squares of such a position that carry a stack of two flats
MaxDoubleStacks == 1

DoubleSquares == {pos \in Squares : RowOf(pos) >= 1}

InitDouble ==
  /\ \E S \in SUBSET DoubleSquares :
       /\ Cardinality(S) <= MaxDoubleStacks
       /\ \E f \in [S -> {<< 1, 1 >>, << 1, 2 >>, << 2, 1 >>, << 2, 2 >>}],
             g \in [DoubleSquares \ S -> {<< >>, << 1 >>, << 2 >>}] :
            board = [getInitBoard EXCEPT
                       !.grid = [pos \in Squares |->
                                   IF pos \in S THEN StackOf(f[pos])
                                   ELSE IF pos \in DoubleSquares THEN StackOf(g[pos])
                                   ELSE EmptyStack]]
  /\ player = 1
  /\ ply = 0
  /\ op = "init"
  /\ prevBoard = board
  /\ mover = 1
  /\ action = -1
  /\ ret = FALSE
  /\ size = N
  /\ heap = << >>

\* the side to move makes one movement that getValidMoves marks valid
MoveOnce ==
  /\ ply = 0
  /\ op = "init"
  /\ \E a \in MovementActions : getValidMoves(board, player, a) /\ Apply(a)

NextDouble == MoveOnce \/ GameEnded

SpecDouble == InitDouble /\ [][NextDouble]_vars

\* C11: if the board produced by a move holds a road of both sides (and held
\* none before), the side that just moved is credited: getGameEnded reports
\* a win from the mover's perspective and a loss from the opponent's.
C11_DoubleRoadMoverCredited ==
  (/\ op = "getGameEnded"
   /\ action \in MovementActions
   /\ ~RoadJoins(prevBoard, 1)
   /\ ~RoadJoins(prevBoard, -1)
   /\ RoadJoins(board, 1)
   /\ RoadJoins(board, -1)) =>
    ret = (IF mover = -player THEN Won ELSE Lost)

\* ------------------------------------------------------------------------
\* The action codec of TakGame(n) for several board sizes (SpecCodec)
\* ------------------------------------------------------------------------

\* bound on the board size n of the games whose codec is examined
MaxSize == 4

Sizes == 1 .. MaxSize

\* movement_patterns of TakGame(n): the "for pickup in range(1, n + 1)" loop
\* from pickup on
RECURSIVE patterns_from(_, _)
patterns_from(n, pickup) ==
  IF pickup > n THEN << >>
  ELSE LET ps == generate_drop_patterns(pickup, pickup)
       IN [i \in 1 .. Len(ps) |-> [pickup |-> pickup, drops |-> ps[i]]]
          \o patterns_from(n, pickup + 1)

\* movement_patterns with the loop "for pickup in range(1, n)"
movement_patterns_short(n) == patterns_from(n - 1, 1)

\* self.movement_patterns of TakGame(n)
movement_patterns_of(n) == patterns_from(n, 1)

\* self.num_placement_actions, self.num_movement_actions, self.action_size
num_placement_actions_of(n) == 3 * n * n
num_movement_actions_of(n) == n * n * 4 * Len(movement_patterns_of(n))
action_size_of(n) == num_placement_actions_of(n) + num_movement_actions_of(n)

\* decoding with the square index taken before the direction
decode_action_square_major(n, a) ==
  IF a < num_placement_actions_of(n)
  THEN LET pos == a % (n * n)
       IN [kind |-> "placement", piece_type_idx |-> a \div (n * n),
           row |-> pos \div n, col |-> pos % n]
  ELSE LET action_offset == a - num_placement_actions_of(n)
           pattern_idx == action_offset \div (4 * n * n)
           remainder == action_offset % (4 * n * n)
           direction == remainder % 4
           position == remainder \div 4
       IN IF pattern_idx >= Len(movement_patterns_of(n))
          THEN [kind |-> "invalid"]
          ELSE [kind |-> "movement", pattern_idx |-> pattern_idx,
                direction |-> direction,
                row |-> position \div n, col |-> position % n,
                pickup |-> movement_patterns_of(n)[pattern_idx + 1].pickup,
                drops |-> movement_patterns_of(n)[pattern_idx + 1].drops]

\* the decoding of an index by getNextState and getValidMoves: a placement
\* (piece_type_idx, row, col) or a movement (pattern_idx, direction,
\* start_row, start_col, pickup_count, drop_pattern), "invalid" on the
\* "pattern_idx >= len(self.movement_patterns)" branch
decode_action(n, a) ==
  IF a < num_placement_actions_of(n)
  THEN LET pos == a % (n * n)
       IN [kind |-> "placement", piece_type_idx |-> a \div (n * n),
           row |-> pos \div n, col |-> pos % n]
  ELSE LET action_offset == a - num_placement_actions_of(n)
           pattern_idx == action_offset \div (4 * n * n)
           remainder == action_offset % (4 * n * n)
           direction == remainder \div (n * n)
           position == remainder % (n * n)
       IN IF pattern_idx >= Len(movement_patterns_of(n))
          THEN [kind |-> "invalid"]
          ELSE [kind |-> "movement", pattern_idx |-> pattern_idx,
                direction |-> direction,
                row |-> position \div n, col |-> position % n,
                pickup |-> movement_patterns_of(n)[pattern_idx + 1].pickup,
                drops |-> movement_patterns_of(n)[pattern_idx + 1].drops]

\* the pattern lookup that compares the pickup count only
find_pattern_pickup(n, pickup, drops) ==
  LET ps == movement_patterns_of(n)
      hits == {idx \in 0 .. (Len(ps) - 1) : ps[idx + 1].pickup = pickup}
  IN IF hits = {} THEN -1 ELSE CHOOSE idx \in hits : \A other \in hits : idx <= other

\* play.py "Find matching pattern": the first idx with p == pickup and
\* pattern == drops, -1 for None
find_pattern(n, pickup, drops) ==
  LET ps == movement_patterns_of(n)
      hits == {idx \in 0 .. (Len(ps) - 1) :
                 ps[idx + 1].pickup = pickup /\ ps[idx + 1].drops = drops}
  IN IF hits = {} THEN -1 ELSE CHOOSE idx \in hits : \A other \in hits : idx <= other

\* the index the callers compute for a placement or a movement, -1 when the
\* pattern is not found ("Invalid pattern")
encode_action(n, act) ==
  IF act.kind = "placement"
  THEN act.row * n + act.col + act.piece_type_idx * n * n
  ELSE LET pattern_idx == find_pattern(n, act.pickup, act.drops)
           position == act.row * n + act.col
       IN IF pattern_idx = -1 THEN -1
          ELSE num_placement_actions_of(n) + position + act.direction * n * n
               + pattern_idx * 4 * n * n

\* the ordered sequences of positive integers that sum to k
Compositions(k) ==
  {s \in UNION {[1 .. l -> 1 .. k] : l \in 1 .. k} : SumSeq(s, Len(s)) = k}

\* the structurally valid actions of a game of size n, as a caller names them
StructuredActions(n) ==
  [kind : {"placement"}, piece_type_idx : 0 .. 2, row : 0 .. (n - 1), col : 0 .. (n - 1)]
  \cup
  UNION {[kind : {"movement"}, direction : 0 .. 3, row : 0 .. (n - 1), col : 0 .. (n - 1),
          pickup : {k}, drops : Compositions(k)] : k \in 1 .. n}

\* TakGame(n): a game of size n is constructed, its action encoding set up
Construct ==
  /\ op = "init"
  /\ size' \in Sizes
  /\ op' = "__init__"
  /\ UNCHANGED << board, player, ply, prevBoard, mover, action, ret, heap >>

\* an index of the action space is decoded
Decode ==
  /\ op = "__init__"
  /\ \E a \in 0 .. (action_size_of(size) - 1) :
       /\ action' = a
       /\ ret' = decode_action(size, a)
  /\ op' = "decode"
  /\ UNCHANGED << board, player, ply, prevBoard, mover, size, heap >>

\* a caller encodes a structurally valid action; ret keeps the action given
Encode ==
  /\ op = "__init__"
  /\ \E act \in StructuredActions(size) :
       /\ action' = encode_action(size, act)
       /\ ret' = act
  /\ op' = "encode"
  /\ UNCHANGED << board, player, ply, prevBoard, mover, size, heap >>

NextCodec == Construct \/ Decode \/ Encode

SpecCodec == Init /\ [][NextCodec]_vars

\* the action a decoding names, without the pattern index
NamedAction(d) ==
  IF d.kind = "movement"
  THEN [kind |-> "movement", direction |-> d.direction, row |-> d.row, col |-> d.col,
        pickup |-> d.pickup, drops |-> d.drops]
  ELSE d

\* C15: decoding an index of [0, action_size) and re-encoding it with the
\* callers' formula yields the index again, and every structurally valid
\* action encodes to an index in range that decodes back to the same action.
C15_CodecRoundTrip ==
  /\ op = "decode" => encode_action(size, ret) = action
  /\ op = "encode" =>
       /\ action \in 0 .. (action_size_of(size) - 1)
       /\ NamedAction(decode_action(size, action)) = ret

\* C15 witness: a movement with several drops on a board of size 3 or more
\* was encoded and its index decodes to it again.
C15_Witness ==
  /\ op = "encode"
  /\ size >= 3
  /\ ret.kind = "movement"
  /\ Len(ret.drops) >= 2
  /\ ret.direction = 3
  /\ NamedAction(decode_action(size, action)) = ret

\* lexicographic order on tuples of equal length
RECURSIVE LexLess(_, _)
LexLess(s, t) ==
  /\ s # << >>
  /\ \/ Head(s) < Head(t)
     \/ Head(s) = Head(t) /\ LexLess(Tail(s), Tail(t))

\* the sort key of a decoding: kind first, then the fields in layout order
LayoutKey(d) ==
  IF d.kind = "placement" THEN << 0, d.piece_type_idx, d.row, d.col >>
  ELSE << 1 + d.pattern_idx, d.direction, d.row, d.col >>

\* C16: the indices below 3 n^2 are the placements, ordered by kind, then
\* row-major square; the indices from 3 n^2 up to action_size are the
\* movements, ordered by pattern index, then direction, then row-major start
\* square; every in-range movement index decodes to a pattern index below
\* the number of patterns (the invalid-pattern branch is not taken).
C16_IndexLayout ==
  op = "decode" =>
    /\ ret.kind = (IF action < 3 * size * size THEN "placement" ELSE "movement")
    /\ ret.kind = "movement" => ret.pattern_idx < Len(movement_patterns_of(size))
    /\ action > 0 => LexLess(LayoutKey(decode_action(size, action - 1)), LayoutKey(ret))
    /\ action = 0 => ret = [kind |-> "placement", piece_type_idx |-> 0, row |-> 0, col |-> 0]
    /\ action = 3 * size * size =>
         ret.pattern_idx = 0 /\ ret.direction = 0 /\ ret.row = 0 /\ ret.col = 0
    /\ action = action_size_of(size) - 1 =>
         /\ ret.pattern_idx = Len(movement_patterns_of(size)) - 1
         /\ ret.direction = 3 /\ ret.row = size - 1 /\ ret.col = size - 1

\* C16 witness: the last index of the action space of a game of size 3 or
\* more was decoded.
C16_Witness ==
  /\ op = "decode"
  /\ size >= 3
  /\ action = action_size_of(size) - 1
  /\ ret.kind = "movement"

\* C17: movement_patterns lists, for each pickup k from 1 to n in increasing
\* k, every ordered sequence of positive integers summing to k exactly once
\* (2^(k-1) patterns for pickup k, 2^n - 1 in all), each entry's pickup is
\* the sum of its drops, and action_size = 3 n^2 + 4 n^2 (2^n - 1).
C17_PatternCatalogue ==
  op = "__init__" =>
    LET ps == movement_patterns_of(size)
        At(k) == {i \in 1 .. Len(ps) : ps[i].pickup = k}
    IN /\ Len(ps) = 2 ^ size - 1
       /\ \A i \in 1 .. Len(ps) :
            /\ ps[i].pickup \in 1 .. size
            /\ ps[i].pickup = SumSeq(ps[i].drops, Len(ps[i].drops))
            /\ \A j \in 1 .. Len(ps) : i < j => ps[i].pickup <= ps[j].pickup
       /\ \A k \in 1 .. size :
            /\ {ps[i].drops : i \in At(k)} = Compositions(k)
            /\ Cardinality(At(k)) = Cardinality(Compositions(k))
            /\ Cardinality(At(k)) = 2 ^ (k - 1)
       /\ action_size_of(size) = 3 * size * size + 4 * size * size * (2 ^ size - 1)

\* C17 witness: a game of size 3 was constructed and its catalogue holds the
\* pattern that drops three pieces one by one.
C17_Witness ==
  /\ op = "__init__"
  /\ size = 3
  /\ \E i \in 1 .. Len(movement_patterns_of(size)) :
       movement_patterns_of(size)[i] = [pickup |-> 3, drops |-> << 1, 1, 1 >>]

\* ------------------------------------------------------------------------
\* Supply bookkeeping and turn order
\* ------------------------------------------------------------------------

\* the four supply counters of a board
Counters(b) == << b.flats1, b.caps1, b.flats2, b.caps2 >>

\* the counters of b with the flat or the capstone counter of side p lowered
\* by one
CountersLess(b, p, capstone) ==
  << b.flats1 - (IF p = 1 /\ ~capstone THEN 1 ELSE 0),
     b.caps1 - (IF p = 1 /\ capstone THEN 1 ELSE 0),
     b.flats2 - (IF p = -1 /\ ~capstone THEN 1 ELSE 0),
     b.caps2 - (IF p = -1 /\ capstone THEN 1 ELSE 0) >>

\* C18: every applied valid placement changes exactly one of the four supply
\* counters, by minus one: the flat counter of the side that places (the
\* player the call is made for) when the piece put on the board is a flat or
\* standing stone, its capstone counter when it is a capstone.
C18_PlacementBookkeeping ==
  (/\ op = "getNextState"
   /\ action \in PlacementActions
   /\ getValidMoves(prevBoard, mover, action)) =>
    LET cells == ChangedCells(prevBoard.grid, board.grid)
    IN /\ Cardinality(cells) = 1
       /\ \A c \in cells :
            Counters(board) = CountersLess(prevBoard, mover, board.grid[c[1]][c[2]] \in Caps)

\* C18 witness: a valid placement put a capstone on the board and the
\* capstone counter of the placing side went down by one.
C18_Witness ==
  /\ op = "getNextState"
  /\ action \in PlacementActions
  /\ getValidMoves(prevBoard, mover, action)
  /\ \E c \in ChangedCells(prevBoard.grid, board.grid) : board.grid[c[1]][c[2]] \in Caps
  /\ CapsOf(board, mover) = CapsOf(prevBoard, mover) - 1

\* C19: for every board, player and movement index, valid or not, the four
\* supply counters of the board returned by getNextState equal those of the
\* board given.
C19_MovementKeepsSupply ==
  (op = "getNextState" /\ action \in MovementActions) =>
    Counters(board) = Counters(prevBoard)

\* C19 witness: a movement that changed the grid left the counters alone.
C19_Witness ==
  /\ op = "getNextState"
  /\ action \in MovementActions
  /\ board.grid # prevBoard.grid
  /\ Counters(board) = Counters(prevBoard)

\* C20: getNextState always returns -player as the next player, so along
\* any sequence of applied actions the side to move alternates strictly.
C20_TurnAlternation == [][player' = -player]_vars

\* C20 witness: after two applied actions the turn is back with white, after
\* black has moved.
C20_Witness ==
  /\ op = "getNextState"
  /\ ply = 2
  /\ mover = -1
  /\ player = 1

\* ------------------------------------------------------------------------
\* Calls on a board object the caller keeps (SpecObjects): a hand-built
\* position is object 1; one call of getNextState (any integer index near
\* the action range) or getCanonicalForm is made on it, then the caller
\* writes to the canonical board it got, or takes the keys of the state given
\* and the state returned
\* ------------------------------------------------------------------------

\* bound on how far outside [0, action_size) the index of a call may lie
MaxOutOfRange == 28

AnyActions == (0 - MaxOutOfRange) .. (action_size - 1 + MaxOutOfRange)

InitObjects ==
  /\ board \in {SeedBoard(g) : g \in PlaceGrids}
  /\ player \in Players
  /\ ply = 0
  /\ op = "init"
  /\ prevBoard = board
  /\ mover = player
  /\ action = -1
  /\ ret = FALSE
  /\ size = N
  /\ heap = << board >>

\* board2, player2 = getNextState(board, player, a): after an exception the
\* caller has no new board and the turn has not passed
CallNextState ==
  /\ op = "init"
  /\ \E a \in AnyActions :
       LET r == getNextState_call(heap, 1, player, a)
       IN /\ heap' = r.heap
          /\ ret' = [ref |-> r.ref, raised |-> r.raised]
          /\ board' = IF r.raised THEN board ELSE r.heap[r.ref]
          /\ player' = IF r.raised THEN player ELSE next_player(player)
          /\ action' = a
  /\ op' = "getNextState"
  /\ prevBoard' = heap[1]
  /\ mover' = player
  /\ ply' = ply + 1
  /\ size' = size

\* canonical = getCanonicalForm(board, player) for the side to move
CallCanonicalForm ==
  /\ op = "init"
  /\ LET r == getCanonicalForm_call(heap, 1, player)
     IN /\ heap' = r.heap
        /\ ret' = [ref |-> r.ref, raised |-> r.raised]
        /\ board' = r.heap[r.ref]
  /\ op' = "getCanonicalForm"
  /\ prevBoard' = heap[1]
  /\ mover' = player
  /\ UNCHANGED << player, ply, action, size >>

\* canonical[height, row, col] = v: the caller writes a piece on a square of
\* the canonical board it was given
WriteReturned ==
  /\ op = "getCanonicalForm"
  /\ \E pos \in Squares, v \in 1 .. 6 :
       LET height == get_stack_height(heap[ret.ref].grid, pos)
       IN /\ height < N
          /\ heap' = [heap EXCEPT ![ret.ref].grid[pos][height] = v]
  /\ board' = heap'[ret.ref]
  /\ op' = "write"
  /\ UNCHANGED << player, ply, prevBoard, mover, action, ret, size >>

\* stringRepresentation of the board given to the call and of the board it
\* returned
StateKeys ==
  /\ op \in {"getNextState", "getCanonicalForm"}
  /\ ~ret.raised
  /\ ret' = [ref |-> ret.ref, raised |-> FALSE,
             keys |-> << stringRepresentation(prevBoard), stringRepresentation(board) >>]
  /\ op' = "stringRepresentation"
  /\ UNCHANGED << board, player, ply, prevBoard, mover, action, size, heap >>

NextObjects == CallNextState \/ CallCanonicalForm \/ WriteReturned \/ StateKeys

SpecObjects == InitObjects /\ [][NextObjects]_vars

\* C21: getNextState never mutates its input board: after any call,
\* placement or movement, valid or invalid, abandoned halfway or not, the
\* caller's board object holds the contents it held before the call.
C21_InputNotMutated ==
  op = "getNextState" => heap[1] = prevBoard

\* C21 witness: a call that returned a board different from the one given
\* left the object given untouched.
C21_Witness ==
  /\ op = "getNextState"
  /\ action \in MovementActions
  /\ ~ret.raised
  /\ heap[ret.ref] # prevBoard
  /\ heap[1] = prevBoard

\* C22: getCanonicalForm(b, 1) has the contents of b, and applying
\* getCanonicalForm(., -1) twice gives the contents of b again, stacks and
\* supply counters.
C22_CanonicalInvolution ==
  op = "getCanonicalForm" =>
    /\ mover = 1 => board = prevBoard
    /\ mover = -1 => getCanonicalForm(board, -1) = prevBoard

\* C22 witness: the canonical form for black of a board with a buried piece
\* and unequal flat counters differs from the board and swaps back to it.
C22_Witness ==
  /\ op = "getCanonicalForm"
  /\ mover = -1
  /\ board # prevBoard
  /\ \E pos \in Squares : Len(PiecesAt(prevBoard.grid, pos)) >= 2
  /\ prevBoard.flats1 # prevBoard.flats2
  /\ getCanonicalForm(board, -1) = prevBoard

\* C23: getCanonicalForm(b, -1) changes the owner of every piece at every
\* level of every stack, keeps its kind and position (so the heights), and
\* exchanges side 1's flat and capstone counters with side 2's.
C23_CanonicalSecondSide ==
  (op = "getCanonicalForm" /\ mover = -1) =>
    /\ \A pos \in Squares, h \in Levels :
         /\ OwnerOf(board.grid[pos][h]) = 0 - OwnerOf(prevBoard.grid[pos][h])
         /\ value_to_piece(board.grid[pos][h]).type = value_to_piece(prevBoard.grid[pos][h]).type
    /\ \A pos \in Squares :
         get_stack_height(board.grid, pos) = get_stack_height(prevBoard.grid, pos)
    /\ \A s \in Players :
         /\ FlatsOf(board, s) = FlatsOf(prevBoard, 0 - s)
         /\ CapsOf(board, s) = CapsOf(prevBoard, 0 - s)

\* C23 witness: the canonical form for black of a board holding a standing
\* stone or capstone, with unequal flat counters, was taken.
C23_Witness ==
  /\ op = "getCanonicalForm"
  /\ mover = -1
  /\ \E pos \in Squares : TopAt(prevBoard.grid, pos) \in Walls \cup Caps
  /\ prevBoard.flats1 # prevBoard.flats2
  /\ board.flats1 = prevBoard.flats2

\* C24: getCanonicalForm is a pure, allocation-new transform for both
\* players: it does not change its input, the board it returns is never the
\* object given, and a later write to the returned board leaves the caller's
\* original board as it was.
C24_CanonicalFresh ==
  /\ op = "getCanonicalForm" => (heap[1] = prevBoard /\ ret.ref # 1)
  /\ op = "write" => heap[1] = prevBoard

\* C25: two states have equal stringRepresentation keys if and only if they
\* have identical stack contents, identical supply counters and the same
\* side to move.
C25_StateKey ==
  op = "stringRepresentation" =>
    (ret.keys[1] = ret.keys[2] <=> (prevBoard = board /\ mover = player))

\* C26: getNextState called with an index outside [0, action_size) reports
\* an error and returns no successor state; it neither places a piece nor
\* passes the turn.
C26_MalformedFailsLoudly ==
  (op = "getNextState" /\ action \notin Actions) =>
    (ret.raised /\ player = mover)

\* C27: for every board, player and placement index that getValidMoves does
\* not mark valid (square occupied, or no supply of the kind), getNextState
\* returns a board whose stacks and supply counters equal those of the input.
C27_IllegalPlacementNoChange ==
  (/\ op = "getNextState"
   /\ action \in PlacementActions
   /\ ~getValidMoves(prevBoard, mover, action)) =>
    board = prevBoard

\* ------------------------------------------------------------------------
\* getInitBoard for several board sizes (SpecInit): a game of size n is
\* constructed, getInitBoard is called and the cells of the array are read
\* ------------------------------------------------------------------------

\* bound on the board size n of the games whose initial board is examined
MaxInitSize == 9

\* standard_pieces with a capstone in the default whatever n is
standard_pieces_capstone(n) ==
  CASE n = 3 -> [flats |-> 10, capstones |-> 0]
    [] n = 4 -> [flats |-> 15, capstones |-> 0]
    [] n = 5 -> [flats |-> 21, capstones |-> 1]
    [] n = 6 -> [flats |-> 30, capstones |-> 1]
    [] n = 7 -> [flats |-> 40, capstones |-> 1]
    [] n = 8 -> [flats |-> 50, capstones |-> 1]
    [] OTHER -> [flats |-> n * n, capstones |-> 1]

\* _init_piece_counts(n): self.standard_pieces of TakGame(n)
standard_pieces_of(n) ==
  CASE n = 3 -> [flats |-> 10, capstones |-> 0]
    [] n = 4 -> [flats |-> 15, capstones |-> 0]
    [] n = 5 -> [flats |-> 21, capstones |-> 1]
    [] n = 6 -> [flats |-> 30, capstones |-> 1]
    [] n = 7 -> [flats |-> 40, capstones |-> 1]
    [] n = 8 -> [flats |-> 50, capstones |-> 1]
    [] OTHER -> [flats |-> n * n, capstones |-> IF n >= 5 THEN 1 ELSE 0]

\* getInitBoard of TakGame(n) as the array it is: layers 0 .. n+3 of n * n
\* cells, the game layers zero, each count plane filled with one value (the
\* flat planes hold max_flats / max_flats, kept here as the count
\* max_flats it stands for)
getInitBoard_of(n) ==
  [layer \in 0 .. (n + 3) |-> [cell \in 0 .. (n * n - 1) |->
     IF layer < n THEN 0
     ELSE IF layer \in {n, n + 2} THEN standard_pieces_of(n).flats
     ELSE standard_pieces_of(n).capstones]]

\* TakGame(n) for a size up to MaxInitSize
ConstructBoard ==
  /\ op = "init"
  /\ size' \in 1 .. MaxInitSize
  /\ op' = "__init__"
  /\ UNCHANGED << board, player, ply, prevBoard, mover, action, ret, heap >>

\* board = getInitBoard(); ret is the array
InitBoard ==
  /\ op = "__init__"
  /\ ret' = getInitBoard_of(size)
  /\ op' = "getInitBoard"
  /\ UNCHANGED << board, player, ply, prevBoard, mover, action, size, heap >>

\* board[layer, row, col] is read: action is the flat index of the cell
\* read, ret the pair of the array and the value read
ReadCell ==
  /\ op = "getInitBoard"
  /\ \E layer \in 0 .. (size + 3), cell \in 0 .. (size * size - 1) :
       /\ action' = layer * size * size + cell
       /\ ret' = [array |-> ret, value |-> ret[layer][cell]]
  /\ op' = "read"
  /\ UNCHANGED << board, player, ply, prevBoard, mover, size, heap >>

NextInit == ConstructBoard \/ InitBoard \/ ReadCell

SpecInit == Init /\ [][NextInit]_vars

\* the allotment of pieces of a side on a board of size n
Allotment(n) ==
  IF n = 3 THEN << 10, 0 >> ELSE IF n = 4 THEN << 15, 0 >>
  ELSE IF n = 5 THEN << 21, 1 >> ELSE IF n = 6 THEN << 30, 1 >>
  ELSE IF n = 7 THEN << 40, 1 >> ELSE IF n = 8 THEN << 50, 1 >>
  ELSE << n * n, IF n >= 5 THEN 1 ELSE 0 >>

\* C28: for every board size n, getInitBoard returns a board with every
\* square empty and each side holding the allotment for n (3: 10/0, 4: 15/0,
\* 5: 21/1, 6: 30/1, 7: 40/1, 8: 50/1, otherwise n^2 flats and one capstone
\* iff n >= 5), the same for both sides.
C28_InitialState ==
  /\ op = "getInitBoard" =>
       /\ DOMAIN ret = 0 .. (size + 3)
       /\ \A layer \in DOMAIN ret : DOMAIN ret[layer] = 0 .. (size * size - 1)
  /\ op = "read" =>
       LET layer == action \div (size * size)
       IN ret.value = (IF layer < size THEN 0
                       ELSE IF layer \in {size, size + 2} THEN Allotment(size)[1]
                       ELSE Allotment(size)[2])

\* C28 witness: the capstone plane of the second side of a board of a size
\* outside the table was read and holds one capstone.
C28_Witness ==
  /\ op = "read"
  /\ size > 8
  /\ action \div (size * size) = size + 3
  /\ ret.value = 1


\* ------------------------------------------------------------------------
\* SpecGame: whole games from getInitBoard, played as test_game_progression
\* plays them (while getGameEnded is 0, apply an action marked valid)
\* ------------------------------------------------------------------------
\* number of plies played in a game
MaxGamePly == 30

\* how many plies before or after its turn in GameLine an action is tried
LineWindow == 1

\* the choices of np.random.choice in one run of the loop: a game of 29 plies
GameLine ==
  << 8, 3, 13, 0, 15, 54, 11, 0, 60, 14, 30, 15, 61, 3, 47, 7, 108, 11, 49,
     13, 125, 9, 277, 49, 16, 36, 13, 33, 9 >>

\* the actions tried at ply k: those GameLine plays within LineWindow plies
Considered(k) ==
  { GameLine[j] : j \in { i \in 1..Len(GameLine) :
                            /\ i >= k + 1 - LineWindow
                            /\ i <= k + 1 + LineWindow } }

\* one turn of the loop: the game has not ended, a valid placement is applied
PlayPlace ==
  /\ ply < MaxGamePly
  /\ getGameEnded(board, player) = Ongoing
  /\ \E a \in Considered(ply) \cap PlacementActions :
       getValidMoves(board, player, a) /\ Apply(a)

\* one turn of the loop: the game has not ended, a valid movement is applied
PlayMove ==
  /\ ply < MaxGamePly
  /\ getGameEnded(board, player) = Ongoing
  /\ \E a \in Considered(ply) \cap MovementActions :
       getValidMoves(board, player, a) /\ Apply(a)

NextGame == PlayPlace \/ PlayMove

SpecGame == Init /\ [][NextGame]_vars

\* C29: no stuck position: in every state reached from getInitBoard by
\* valid actions in which getGameEnded returns 0 for the player to move,
\* getValidMoves marks at least one action valid for that player.
C29_NoStuckPosition ==
  getGameEnded(board, player) = Ongoing
    => \E a \in Actions : getValidMoves(board, player, a)

\* the counter of side s for pieces of the given kind
CounterOf(b, s, capstone) ==
  IF s = 1 THEN (IF capstone THEN b.caps1 ELSE b.flats1)
  ELSE (IF capstone THEN b.caps2 ELSE b.flats2)

FlatPlacements == 0 .. (N * N - 1)

\* C31: at plies 0 and 1 of a game the legal set holds flat placements
\* only: getValidMoves marks no standing-stone placement, no capstone
\* placement and no movement valid.
C31_OpeningOnlyFlats ==
  ply \in {0, 1}
    => \A a \in Actions : getValidMoves(board, player, a) => a \in FlatPlacements

\* ------------------------------------------------------------------------
\* SpecStacks: hand-built positions holding a full stack, then one call of
\* getNextState with any index aimed at the row, valid or not
\* ------------------------------------------------------------------------
\* bound on the number of pieces beside the full stack
MaxStackOthers == 3

\* stacks of height n: flats of alternating sides below, any piece on top
FullStacks ==
  {StackOf([k \in 1 .. (N - 1) |-> IF k % 2 = 1 THEN 1 ELSE 2] \o << top >>) :
     top \in 1 .. 6}

StackGrids ==
  {[pos \in Squares |-> IF pos \in SeedLine THEN f[pos] ELSE EmptyStack] :
     f \in {f \in [SeedLine -> SeedStacks] :
              /\ \E pos \in SeedLine : f[pos] \in FullStacks
              /\ SumOver([pos \in SeedLine |-> PiecesIn(f[pos])], SeedLine)
                   <= N + MaxStackOthers}}

\* the indices whose placement square or start square lies on the row
LineActions ==
  {a \in Actions :
     (IF a < num_placement_actions THEN a % (N * N)
      ELSE decode_movement(a).position) \in SeedLine}

InitStacks ==
  /\ board \in {SeedBoard(g) : g \in StackGrids}
  /\ player \in Players
  /\ ply = 0
  /\ op = "init"
  /\ prevBoard = board
  /\ mover = player
  /\ action = -1
  /\ ret = FALSE
  /\ size = N
  /\ heap = << >>

\* one forced call with a placement index, valid or not
StackPlace ==
  /\ ply = 0
  /\ \E a \in LineActions \cap PlacementActions : Apply(a)

\* one forced call with a movement index, valid or not
StackMove ==
  /\ ply = 0
  /\ \E a \in LineActions \cap MovementActions : Apply(a)

NextStacks == StackPlace \/ StackMove

SpecStacks == InitStacks /\ [][NextStacks]_vars

\* the number of pieces held by a stack, wherever they are
PieceCount(stack) == Cardinality({h \in DOMAIN stack : stack[h] # 0})

\* C32: stack height bound: after any getNextState call, valid or not, every
\* square has a stack of height 0..n: its pieces lie within the n game
\* layers and it holds at most n of them.
C32_StackHeightBound ==
  \A pos \in Squares :
    /\ DOMAIN board.grid[pos] = Levels
    /\ get_stack_height(board.grid, pos) \in 0 .. N
    /\ PieceCount(board.grid[pos]) <= N

\* a call aimed at a stack that is already n high has been made: a placement
\* on it, or a movement whose first step lands on it
C32_Witness ==
  /\ op = "getNextState"
  /\ \/ /\ action \in PlacementActions
        /\ get_stack_height(prevBoard.grid, action % (N * N)) = N
     \/ /\ action \in MovementActions
        /\ getValidMoves(prevBoard, mover, action)
        /\ StepOnBoard(action, 1)
        /\ get_stack_height(prevBoard.grid, StepSquare(action, 1)) = N
  /\ \E pos \in Squares : get_stack_height(board.grid, pos) = N

\* C34: legal set and transition agree on movements: getValidMoves marks a
\* movement index valid iff getNextState returns a board whose stack
\* contents differ from the input.
C34_ValidIffChanged ==
  (op = "getNextState" /\ action \in MovementActions)
    => (getValidMoves(prevBoard, mover, action) <=> board.grid # prevBoard.grid)

\* C37: stacks have no holes: after any getNextState call, on every square
\* every level above an empty level is empty, so _get_stack_height (first
\* empty level from the bottom) is the number of pieces on the square, and
\* is what TakLogic.get_stack_height (highest occupied level) gives.
C37_NoHoles ==
  \A pos \in Squares :
    /\ \A h \in Levels : \A k \in Levels :
         (board.grid[pos][h] = 0 /\ k > h) => board.grid[pos][k] = 0
    /\ get_stack_height(board.grid, pos) = PieceCount(board.grid[pos])
    /\ get_stack_height(board.grid, pos) = get_stack_height_logic(board.grid, pos)

\* a movement has lifted the upper part of a stack, leaving pieces below,
\* and has dropped a piece on a stack that held pieces already
C37_Witness ==
  /\ op = "getNextState"
  /\ action \in MovementActions
  /\ board.grid # prevBoard.grid
  /\ MovePickup(action) < get_stack_height(prevBoard.grid, MoveStart(action))
  /\ get_stack_height(board.grid, MoveStart(action)) > 0
  /\ get_stack_height(prevBoard.grid, StepSquare(action, 1)) > 0
  /\ get_stack_height(board.grid, StepSquare(action, 1))
       > get_stack_height(prevBoard.grid, StepSquare(action, 1))

\* every piece below the top of a stack is a flat
NoneBuried(grid) ==
  \A pos \in Squares : \A h \in Levels :
    (h + 1 < get_stack_height(grid, pos)) => grid[pos][h] \in {1, 2}

\* C38: walls and capstones are never buried: a valid action applied to a
\* position in which standing stones and capstones occur only as top pieces
\* gives such a position again.
C38_NoneBuried ==
  (/\ op = "getNextState"
   /\ getValidMoves(prevBoard, mover, action)
   /\ NoneBuried(prevBoard.grid))
    => NoneBuried(board.grid)

\* a valid movement has carried a standing stone or a capstone on top of
\* other pieces onto a square that held pieces already
C38_Witness ==
  /\ op = "getNextState"
  /\ action \in MovementActions
  /\ getValidMoves(prevBoard, mover, action)
  /\ MovePickup(action) >= 2
  /\ TopAt(prevBoard.grid, MoveStart(action)) \in Walls \cup Caps
  /\ LET last == StepSquare(action, Len(MoveDrops(action)))
     IN /\ get_stack_height(prevBoard.grid, last) > 0
        /\ TopAt(board.grid, last) \in Walls \cup Caps
        /\ get_stack_height(board.grid, last) > get_stack_height(prevBoard.grid, last)
  /\ NoneBuried(board.grid)

\* C39: pieces keep their identity: across a valid action every piece on
\* the board is still on the board with its owner and its kind, except a
\* standing stone on top of the final square of a movement that drops a
\* capstone last, which becomes a flat of the same owner; and no call,
\* rejected or not, turns a standing stone into a flat anywhere else.
C39_PiecesKeepIdentity ==
  op = "getNextState" =>
    LET valid == getValidMoves(prevBoard, mover, action)
        moved == action \in MovementActions
        last == StepSquare(action, Len(MoveDrops(action)))
        flattens == moved /\ valid /\ Flattens(prevBoard, action, Len(MoveDrops(action)))
        wall == TopAt(prevBoard.grid, last)
        change(v) == IF flattens /\ v = wall THEN -1
                     ELSE IF flattens /\ v = wall - 2 THEN 1
                     ELSE 0
    IN /\ (valid /\ moved) =>
            \A v \in 1 .. 6 :
              CountCells(board.grid, {v}) = CountCells(prevBoard.grid, {v}) + change(v)
       /\ (valid /\ ~moved) =>
            \A c \in Squares \X Levels :
              prevBoard.grid[c[1]][c[2]] # 0
                => board.grid[c[1]][c[2]] = prevBoard.grid[c[1]][c[2]]
       /\ \A c \in Squares \X Levels :
            (prevBoard.grid[c[1]][c[2]] \in Walls /\ board.grid[c[1]][c[2]] \in {1, 2})
              => /\ flattens
                 /\ c[1] = last
                 /\ c[2] = get_stack_height(prevBoard.grid, last) - 1

\* C36: the result is colour-symmetric: getGameEnded on the canonical form
\* of a board for player p, asked for player 1, equals getGameEnded of the
\* board asked for p.
C36_ResultSymmetric ==
  op = "getGameEnded"
    => getGameEnded(getCanonicalForm(board, mover), 1) = ret

\* the result of a finished game was asked for the second side, whose
\* canonical board has the colours exchanged
C36_Witness ==
  /\ op = "getGameEnded"
  /\ mover = -1
  /\ ret \in {Won, Lost}
  /\ getCanonicalForm(board, mover) # board
  /\ \E pos \in Squares : TopAt(board.grid, pos) \in {3, 6}

\* C35: canonicalization commutes with applying an action: for a call
\* getNextState(b, p, a), the board of getNextState(getCanonicalForm(b, p),
\* 1, a) has the contents of getCanonicalForm applied with p to the board
\* returned.
C35_CanonicalCommutes ==
  op = "getNextState"
    => getNextState(getCanonicalForm(prevBoard, mover), 1, action)
         = getCanonicalForm(board, mover)

\* the second side has made a call that changed the stacks: a placement, or
\* a movement of a stack it controls
C35_Witness ==
  /\ op = "getNextState"
  /\ mover = -1
  /\ board.grid # prevBoard.grid
  /\ getCanonicalForm(board, mover) # board
  /\ \/ action \in PlacementActions
     \/ /\ action \in MovementActions
        /\ MovePickup(action) >= 2

\* ------------------------------------------------------------------------
\* SpecShared: two callers, each with a board of its own, call the methods
\* of one TakGame object; a call by one caller may begin and end while a
\* call by the other is under way
\* ------------------------------------------------------------------------
\* bound on the number of calls made
MaxSharedCalls == 3

Callers == {1, 2}

Methods ==
  {"getValidMoves", "getNextState", "getGameEnded", "getCanonicalForm",
   "stringRepresentation"}

\* the indices the callers pass to getNextState: flat at (0,0), standing
\* stone at (1,1), the movement of one piece from (0,1) to the right
SharedActions == {0, 13, 55}

\* the attributes __init__ gives the game object
self_fields ==
  [n |-> N,
   standard_pieces |-> standard_pieces,
   movement_patterns |-> movement_patterns,
   num_placement_actions |-> num_placement_actions,
   num_movement_actions |-> num_movement_actions,
   action_size |-> action_size]

\* a method that keeps the size of the array it last built in self.action_size
self_after_resized(m, f) ==
  IF m = "getValidMoves" THEN [f EXCEPT !.action_size = 0] ELSE f

\* the attributes of the game object after a call of method m that found
\* them as f: no method body assigns to an attribute of self
self_after(m, f) == f

\* what method m returns for board contents b, side p and index a when it
\* reads the attributes f of the game object; the operators of this module
\* being those of the object as constructed, the value is left open for
\* any other f
method_result(f, m, b, p, a) ==
  IF f # self_fields THEN [defined |-> FALSE, value |-> << >>]
  ELSE [defined |-> TRUE,
        value |-> CASE m = "getValidMoves" ->
                         {x \in Actions : getValidMoves(b, p, x)}
                    [] m = "getNextState" ->
                         << getNextState(b, p, a), next_player(p) >>
                    [] m = "getGameEnded" -> getGameEnded(b, p)
                    [] m = "getCanonicalForm" -> getCanonicalForm(b, p)
                    [] m = "stringRepresentation" -> stringRepresentation(b)]

\* the boards the callers start with: getInitBoard, and the board after the
\* two opening placements
SharedBoards ==
  << getInitBoard, getNextState(getNextState(getInitBoard, 1, 0), -1, 1) >>

InitShared ==
  /\ heap = << self_fields >> \o SharedBoards
  /\ ret = [c \in Callers |->
              [pc |-> "idle", method |-> "none", action |-> -1, turn |-> 1,
               side |-> 1, arg |-> SharedBoards[c], overlapped |-> FALSE,
               result |-> [defined |-> FALSE, value |-> << >>]]]
  /\ board = getInitBoard
  /\ player = 1
  /\ ply = 0
  /\ op = "init"
  /\ prevBoard = getInitBoard
  /\ mover = 1
  /\ action = -1
  /\ size = N

\* a caller enters a method with its own board and the side it has to move
Call ==
  /\ ply < MaxSharedCalls
  /\ \E c \in Callers, m \in Methods, a \in SharedActions \cup {-1} :
       /\ ret[c].pc # "called"
       /\ (m = "getNextState") <=> (a \in SharedActions)
       /\ ret' = [ret EXCEPT ![c] =
                    [pc |-> "called", method |-> m, action |-> a,
                     turn |-> ret[c].turn, side |-> ret[c].turn,
                     arg |-> heap[c + 1],
                     overlapped |-> \E d \in Callers \ {c} : ret[d].pc = "called",
                     result |-> [defined |-> FALSE, value |-> << >>]]]
       /\ board' = heap[c + 1]
       /\ prevBoard' = heap[c + 1]
       /\ player' = ret[c].turn
       /\ mover' = ret[c].turn
       /\ action' = a
  /\ ply' = ply + 1
  /\ op' = "call"
  /\ UNCHANGED << size, heap >>

\* the method returns to its caller; after getNextState the caller goes on
\* with the board and the side returned
Return ==
  /\ \E c \in Callers :
       /\ ret[c].pc = "called"
       /\ LET m == ret[c].method
              r == method_result(heap[1], m, heap[c + 1], ret[c].side, ret[c].action)
              stepped == m = "getNextState" /\ r.defined
          IN /\ heap' = [heap EXCEPT ![1] = self_after(m, @),
                                     ![c + 1] = IF stepped THEN r.value[1] ELSE @]
             /\ ret' = [ret EXCEPT ![c].pc = "returned",
                                   ![c].result = r,
                                   ![c].turn = IF stepped THEN r.value[2] ELSE @]
             /\ board' = IF stepped THEN r.value[1] ELSE heap[c + 1]
             /\ player' = IF stepped THEN r.value[2] ELSE ret[c].turn
       /\ prevBoard' = heap[c + 1]
       /\ mover' = ret[c].side
       /\ action' = ret[c].action
  /\ op' = "return"
  /\ UNCHANGED << ply, size >>

NextShared == Call \/ Return

SpecShared == InitShared /\ [][NextShared]_vars

\* C33: no hidden shared mutable state: the calls of getValidMoves,
\* getNextState, getGameEnded, getCanonicalForm and stringRepresentation
\* leave every attribute of the shared game object as __init__ set it, and
\* every call, whatever calls of the other caller it overlaps, returns what
\* the method returns for its own board, side and index alone.
C33_NoSharedState ==
  /\ heap[1] = self_fields
  /\ \A c \in Callers :
       ret[c].pc = "returned" =>
         /\ ret[c].result.defined
         /\ ret[c].result.value =
              method_result(self_fields, ret[c].method, ret[c].arg,
                            ret[c].side, ret[c].action).value

\* the second caller's getValidMoves began while a getNextState of the
\* first caller was under way, and both calls have returned
C33_Witness ==
  /\ ret[1].pc = "returned"
  /\ ret[2].pc = "returned"
  /\ ret[2].overlapped
  /\ ret[1].method = "getNextState"
  /\ ret[2].method = "getValidMoves"
  /\ heap[2] # SharedBoards[1]
  /\ ret[2].result.value # {}

====
